---------------------------- MODULE Spec2Model ----------------------------
(***************************************************************************)
(* CowArc<T>: a copy-on-write handle around std::sync::Arc<T> (lib.rs).    *)
(*                                                                         *)
(* T is modelled as String, the type of the first test: a finite sequence  *)
(* of characters.  An allocation is one ArcInner: its                      *)
(* strong count and its value.  Allocation identities are never reused, so *)
(* "same allocation" (std::ptr::eq on the deref'ed values) is equality of  *)
(* identities.                                                             *)
(*                                                                         *)
(* Spec     : every CowArc operation is one step (single owner thread);    *)
(*            the observer `last` records the operation just performed.    *)
(* SpecPast : the same steps; the observer `past` records the allocations  *)
(*            each handle was bound to earlier.                            *)
(* SpecSeen : the same steps; the observer `seen` records what each handle *)
(*            last read.                                                   *)
(* SpecConc : every handle is owned by its own thread; the atomic steps of *)
(*            Arc (fetch_add, fetch_sub, the drop of the value) interleave.*)
(* An observer a specification does not keep stays as it starts, so that   *)
(* the three observers do not multiply each other's states.                *)
(***************************************************************************)
EXTENDS Integers, Sequences, FiniteSets

\* ------------------------------------------------------------------ bounds
MaxHandles == 3
MaxAllocs == 3
MaxLen == 1

Handles == 1..MaxHandles
Allocs == 1..MaxAllocs
\* The characters the strings are made of.
Chars == {"a"}

\* The null Arc pointer of a handle slot that holds no CowArc.
Null == 0
\* The content of memory that holds no T (never allocated, or dropped).
NoVal == <<"noval">>

RECURSIVE SeqsUpTo(_)
SeqsUpTo(n) ==
    IF n = 0 THEN {<<>>}
    ELSE LET shorter == SeqsUpTo(n - 1)
         IN shorter \cup {Append(s, c) : s \in {t \in shorter : Len(t) = n - 1}, c \in Chars}

\* The values of T that new and set_val are called with.
Values == SeqsUpTo(MaxLen)

\* The closures passed to update_val: FnOnce(&mut T).
\*   noop        leaves the value alone
\*   clear       val.clear()
\*   push        val.push(c)
\*   push_panic  val.push(c); panic!()   (fails after a partial edit)
\*   panic       panic!()
Mutators ==
    {[kind |-> k, c |-> "a"] : k \in {"noop", "clear", "panic"}}
    \cup {[kind |-> k, c |-> c] : k \in {"push", "push_panic"}, c \in Chars}

VARIABLES
    inner,      \* inner[h]: the allocation handle h's Arc points to, or Null
    data,       \* data[a]: the T stored in allocation a, or NoVal
    strong,     \* strong[a]: the Arc strong count of allocation a
    frees,      \* frees[a]: how many times allocation a was freed
    nallocs,    \* allocations created so far (the last identity given out)
    completed,  \* completed calls of new, set_val and update_val
    last,       \* observer: the operation just performed
    past,       \* observer: past[h], the allocations h was bound to earlier
    seen,       \* observer: seen[h], what deref last returned since h was rebound
    obs,        \* which observer this run keeps: "last", "past", "seen"; "conc" in SpecConc
    pc,         \* SpecConc: pc[h], the position of the thread that owns h
    tmp         \* SpecConc: tmp[h], the Arc::new result not yet stored in h

vars == <<inner, data, strong, frees, nallocs, completed, last, past, seen, obs, pc, tmp>>

\* No closure (the operation takes none).
NoF == [kind |-> "none", c |-> "a"]

\* What `last` records of an operation: its name, the handle it acted on (for
\* new and clone: the handle it made), the allocation that handle was bound to
\* before (for clone: the source's), clone's source handle, and the value or the
\* closure it was called with.
Op(op, h, old, src, val, f) ==
    [op |-> op, h |-> h, old |-> old, src |-> src, val |-> val, f |-> f]
NoOp == Op("init", Null, Null, Null, NoVal, NoF)

Observe(o) == last' = IF obs = "last" THEN o ELSE last
ObservePast(p) == past' = IF obs = "past" THEN p ELSE past
ObserveSeen(s) == seen' = IF obs = "seen" THEN s ELSE seen

\* ------------------------------------------------------- T and its closures

\* T::clone for String: a new string with the same characters, one by one.
RECURSIVE CloneT(_)
CloneT(v) == IF v = <<>> THEN <<>> ELSE <<Head(v)>> \o CloneT(Tail(v))

\* f(&mut v): the value v is left with, and whether f returned (ok) or panicked.
Apply(f, v) ==
    CASE f.kind = "noop" -> [val |-> v, ok |-> TRUE]
      [] f.kind = "clear" -> [val |-> <<>>, ok |-> TRUE]
      [] f.kind = "push" -> [val |-> Append(v, f.c), ok |-> TRUE]
      [] f.kind = "push_panic" -> [val |-> Append(v, f.c), ok |-> FALSE]
      [] f.kind = "panic" -> [val |-> v, ok |-> FALSE]

\* ----------------------------------------------------------------- handles

Live(h) == inner[h] # Null
FreeSlots == {h \in Handles : ~Live(h) /\ pc[h] = "none"}
\* The slot a newly created handle takes.
NewSlot == CHOOSE g \in FreeSlots : \A k \in FreeSlots : g <= k

\* Deref::deref: the value behind the handle's Arc.
deref_val(h) == data[inner[h]]

\* std::ptr::eq(a.deref(), b.deref())
IdentityEq(a, b) == inner[a] = inner[b]
\* a.eq(b.deref()): T's equality on the two deref'ed values.
ValueEq(a, b) == deref_val(a) = deref_val(b)

\* The allocations created so far, counted from the heap itself.
Created == {a \in Allocs : strong[a] # 0 \/ frees[a] # 0}

\* --------------------------------------------------- Spec: one step per call

\* self.inner = <a shared allocation edited in place>: no new allocation.
RebindInPlace(h, val) ==
    /\ data' = [data EXCEPT ![inner[h]] = val]
    /\ ObservePast(past)
    /\ ObserveSeen([seen EXCEPT ![h] = NoVal])
    /\ completed' = completed + 1
    /\ UNCHANGED <<inner, strong, frees, nallocs>>

\* self.inner = Arc::new(val) with the old Arc forgotten instead of dropped.
RebindLeak(h, val) ==
    LET fresh == nallocs + 1
    IN /\ nallocs' = fresh
       /\ strong' = [strong EXCEPT ![fresh] = 1]
       /\ data' = [data EXCEPT ![fresh] = val]
       /\ inner' = [inner EXCEPT ![h] = fresh]
       /\ ObservePast([past EXCEPT ![h] = @ \cup {inner[h]}])
       /\ ObserveSeen([seen EXCEPT ![h] = NoVal])
       /\ completed' = completed + 1
       /\ UNCHANGED frees

\* self.inner = Arc::new(val): a new allocation with strong count 1 holding val,
\* the drop of the Arc the field held (its count goes down; the last reference
\* drops the value and frees the allocation), the store of the new Arc.
Rebind(h, val) ==
    LET fresh == nallocs + 1
        old == inner[h]
        wasLast == strong[old] = 1
    IN /\ nallocs' = fresh
       /\ strong' = [strong EXCEPT ![fresh] = 1, ![old] = @ - 1]
       /\ data' = [data EXCEPT ![fresh] = val, ![old] = IF wasLast THEN NoVal ELSE @]
       /\ frees' = [frees EXCEPT ![old] = IF wasLast THEN @ + 1 ELSE @]
       /\ inner' = [inner EXCEPT ![h] = fresh]
       /\ ObservePast([past EXCEPT ![h] = @ \cup {old}])
       /\ ObserveSeen([seen EXCEPT ![h] = NoVal])
       /\ completed' = completed + 1

\* new that shares an existing allocation holding an equal value.
new_interned(val) ==
    /\ FreeSlots # {}
    /\ nallocs < MaxAllocs
    /\ LET h == NewSlot
           a == nallocs + 1
           same == {b \in Allocs : strong[b] > 0 /\ data[b] = val}
       IN IF same = {}
          THEN /\ nallocs' = a
               /\ strong' = [strong EXCEPT ![a] = 1]
               /\ data' = [data EXCEPT ![a] = val]
               /\ inner' = [inner EXCEPT ![h] = a]
               /\ Observe(Op("new", h, Null, Null, val, NoF))
          ELSE LET b == CHOOSE b \in same : TRUE
               IN /\ strong' = [strong EXCEPT ![b] = @ + 1]
                  /\ inner' = [inner EXCEPT ![h] = b]
                  /\ Observe(Op("new", h, Null, Null, val, NoF))
                  /\ UNCHANGED <<nallocs, data>>
    /\ completed' = completed + 1
    /\ UNCHANGED <<frees, past, seen, obs, pc, tmp>>

new(val) ==
    /\ FreeSlots # {}
    /\ nallocs < MaxAllocs
    /\ LET h == NewSlot
           a == nallocs + 1
       IN /\ nallocs' = a
          /\ strong' = [strong EXCEPT ![a] = 1]
          /\ data' = [data EXCEPT ![a] = val]
          /\ inner' = [inner EXCEPT ![h] = a]
          /\ Observe(Op("new", h, Null, Null, val, NoF))
    /\ completed' = completed + 1
    /\ UNCHANGED <<frees, past, seen, obs, pc, tmp>>

\* set_val that keeps the allocation when the value does not change.
set_val_if_changed(h, val) ==
    /\ Live(h)
    /\ nallocs < MaxAllocs
    /\ IF val = deref_val(h)
       THEN /\ completed' = completed + 1
            /\ UNCHANGED <<inner, data, strong, frees, nallocs, past, seen>>
       ELSE Rebind(h, val)
    /\ Observe(Op("set_val", h, inner[h], Null, val, NoF))
    /\ UNCHANGED <<obs, pc, tmp>>

set_val(h, val) ==
    /\ Live(h)
    /\ nallocs < MaxAllocs
    /\ Rebind(h, val)
    /\ Observe(Op("set_val", h, inner[h], Null, val, NoF))
    /\ UNCHANGED <<obs, pc, tmp>>

\* update_val in the manner of Arc::make_mut: a sole owner edits in place.
update_val_make_mut(h, f) ==
    /\ Live(h)
    /\ LET v == CloneT(deref_val(h))
           r == Apply(f, v)
       IN IF r.ok
          THEN /\ r.val \in Values
               /\ nallocs < MaxAllocs
               /\ IF strong[inner[h]] = 1 THEN RebindInPlace(h, r.val) ELSE Rebind(h, r.val)
               /\ Observe(Op("update_val", h, inner[h], Null, NoVal, f))
          ELSE /\ Observe(Op("update_val_panic", h, inner[h], Null, NoVal, f))
               /\ UNCHANGED <<inner, data, strong, frees, nallocs, completed, past, seen>>
    /\ UNCHANGED <<obs, pc, tmp>>

\* update_val that stores the copy before the closure has returned.
update_val_early(h, f) ==
    /\ Live(h)
    /\ LET v == CloneT(deref_val(h))
           r == Apply(f, v)
       IN /\ r.val \in Values
          /\ nallocs < MaxAllocs
          /\ Rebind(h, r.val)
          /\ Observe(Op(IF r.ok THEN "update_val" ELSE "update_val_panic", h, inner[h], Null, NoVal, f))
    /\ UNCHANGED <<obs, pc, tmp>>

\* let mut v = self.inner.deref().clone(); f(&mut v); self.inner = Arc::new(v).
\* A closure that panics unwinds out of update_val: v is dropped, the store is
\* never reached.
update_val(h, f) ==
    /\ Live(h)
    /\ LET v == CloneT(deref_val(h))
           r == Apply(f, v)
       IN IF r.ok
          THEN /\ r.val \in Values
               /\ nallocs < MaxAllocs
               /\ Rebind(h, r.val)
               /\ Observe(Op("update_val", h, inner[h], Null, NoVal, f))
          ELSE /\ Observe(Op("update_val_panic", h, inner[h], Null, NoVal, f))
               /\ UNCHANGED <<inner, data, strong, frees, nallocs, completed, past, seen>>
    /\ UNCHANGED <<obs, pc, tmp>>

\* deref that first makes the handle the only owner of its value.
deref_unshare(h) ==
    /\ Live(h)
    /\ IF strong[inner[h]] > 1 /\ nallocs < MaxAllocs
       THEN LET fresh == nallocs + 1
            IN /\ nallocs' = fresh
               /\ strong' = [strong EXCEPT ![fresh] = 1, ![inner[h]] = @ - 1]
               /\ data' = [data EXCEPT ![fresh] = deref_val(h)]
               /\ inner' = [inner EXCEPT ![h] = fresh]
               /\ UNCHANGED frees
       ELSE UNCHANGED <<inner, data, strong, frees, nallocs>>
    /\ ObserveSeen([seen EXCEPT ![h] = deref_val(h)])
    /\ Observe(Op("deref", h, inner[h], Null, NoVal, NoF))
    /\ UNCHANGED <<completed, past, obs, pc, tmp>>

deref(h) ==
    /\ Live(h)
    /\ ObserveSeen([seen EXCEPT ![h] = deref_val(h)])
    /\ Observe(Op("deref", h, inner[h], Null, NoVal, NoF))
    /\ UNCHANGED <<inner, data, strong, frees, nallocs, completed, past, obs, pc, tmp>>

\* clone that copies the value into an allocation of its own.
clone_deep(h) ==
    /\ Live(h)
    /\ FreeSlots # {}
    /\ nallocs < MaxAllocs
    /\ LET g == NewSlot
           a == nallocs + 1
       IN /\ nallocs' = a
          /\ strong' = [strong EXCEPT ![a] = 1]
          /\ data' = [data EXCEPT ![a] = CloneT(deref_val(h))]
          /\ inner' = [inner EXCEPT ![g] = a]
          /\ Observe(Op("clone", g, inner[h], h, NoVal, NoF))
    /\ UNCHANGED <<frees, completed, past, seen, obs, pc, tmp>>

\* CowArc{ inner: self.inner.clone() }: Arc::clone adds one to the strong count
\* and returns a pointer to the same allocation.
clone(h) ==
    /\ Live(h)
    /\ FreeSlots # {}
    /\ LET g == NewSlot
       IN /\ inner' = [inner EXCEPT ![g] = inner[h]]
          /\ strong' = [strong EXCEPT ![inner[h]] = @ + 1]
          /\ Observe(Op("clone", g, inner[h], h, NoVal, NoF))
    /\ UNCHANGED <<data, frees, nallocs, completed, past, seen, obs, pc, tmp>>

\* The handle goes out of scope: the drop of its Arc.
drop(h) ==
    /\ Live(h)
    /\ LET old == inner[h]
           wasLast == strong[old] = 1
       IN /\ strong' = [strong EXCEPT ![old] = @ - 1]
          /\ data' = [data EXCEPT ![old] = IF wasLast THEN NoVal ELSE @]
          /\ frees' = [frees EXCEPT ![old] = IF wasLast THEN @ + 1 ELSE @]
          /\ inner' = [inner EXCEPT ![h] = Null]
          /\ Observe(Op("drop", h, old, Null, NoVal, NoF))
    /\ ObservePast([past EXCEPT ![h] = {}])
    /\ ObserveSeen([seen EXCEPT ![h] = NoVal])
    /\ UNCHANGED <<nallocs, completed, obs, pc, tmp>>

\* ------------------------------------- SpecConc: one step per atomic access
\* Every handle belongs to a thread of its own.  pc[h] is that thread's place:
\*   "none"         no handle
\*   "idle"         between two calls
\*   "assign"       in self.inner = Arc::new(..): the new Arc is made (tmp[h]),
\*                  the old Arc's count is not yet decremented
\*   "assign_free"  the count of the old Arc went to zero: about to free it
\*   "drop_free"    in drop: the count went to zero: about to free

\* What a read of allocation a returns.  A read of freed memory is undefined
\* behaviour: it may return anything.
ReadOf(a) == IF frees[a] = 0 THEN {data[a]} ELSE Values \cup {NoVal}

\* The Arcs that point to allocation a and have not yet given their count back.
Refs(a) ==
    Cardinality({h \in Handles : inner[h] = a /\ pc[h] \in {"idle", "assign"}})
    + Cardinality({h \in Handles : tmp[h] = a})

\* Arc::clone without the fetch_add.
c_clone_no_inc(h) ==
    /\ pc[h] = "idle"
    /\ FreeSlots # {}
    /\ LET g == NewSlot
       IN /\ inner' = [inner EXCEPT ![g] = inner[h]]
          /\ pc' = [pc EXCEPT ![g] = "idle"]
    /\ last' = NoOp
    /\ UNCHANGED <<data, strong, frees, nallocs, completed, past, seen, obs, tmp>>

\* Arc::clone: strong.fetch_add(1); the new handle goes to a thread of its own.
c_clone(h) ==
    /\ pc[h] = "idle"
    /\ FreeSlots # {}
    /\ LET g == NewSlot
       IN /\ inner' = [inner EXCEPT ![g] = inner[h]]
          /\ strong' = [strong EXCEPT ![inner[h]] = @ + 1]
          /\ pc' = [pc EXCEPT ![g] = "idle"]
    /\ last' = NoOp
    /\ UNCHANGED <<data, frees, nallocs, completed, past, seen, obs, tmp>>

\* deref: a plain read of the allocation, with no lock.
c_deref(h) ==
    /\ pc[h] = "idle"
    /\ \E r \in ReadOf(inner[h]) : last' = Op("deref", h, inner[h], Null, r, NoF)
    /\ UNCHANGED <<inner, data, strong, frees, nallocs, completed, past, seen, obs, pc, tmp>>

\* Arc::new(val): private to the thread until it is stored.
ArcNew(h, val) ==
    LET fresh == nallocs + 1
    IN /\ nallocs' = fresh
       /\ strong' = [strong EXCEPT ![fresh] = 1]
       /\ data' = [data EXCEPT ![fresh] = val]
       /\ tmp' = [tmp EXCEPT ![h] = fresh]
       /\ pc' = [pc EXCEPT ![h] = "assign"]

\* set_val up to the drop of the old Arc.
c_set_val(h, val) ==
    /\ pc[h] = "idle"
    /\ nallocs < MaxAllocs
    /\ ArcNew(h, val)
    /\ last' = NoOp
    /\ UNCHANGED <<inner, frees, completed, past, seen, obs>>

\* update_val up to the drop of the old Arc; a panicking closure ends the call.
c_update_val(h, f) ==
    /\ pc[h] = "idle"
    /\ \E v0 \in ReadOf(inner[h]) \cap Values :
          LET r == Apply(f, CloneT(v0))
          IN IF r.ok
             THEN /\ r.val \in Values
                  /\ nallocs < MaxAllocs
                  /\ ArcNew(h, r.val)
             ELSE UNCHANGED <<data, strong, nallocs, pc, tmp>>
    /\ last' = NoOp
    /\ UNCHANGED <<inner, frees, completed, past, seen, obs>>

\* The drop of the old Arc in the assignment: strong.fetch_sub(1).  Any count
\* but the last ends the call with the new Arc stored.
c_assign_release(h) ==
    /\ pc[h] = "assign"
    /\ strong' = [strong EXCEPT ![inner[h]] = @ - 1]
    /\ IF strong[inner[h]] = 1
       THEN /\ pc' = [pc EXCEPT ![h] = "assign_free"]
            /\ UNCHANGED <<inner, tmp>>
       ELSE /\ inner' = [inner EXCEPT ![h] = tmp[h]]
            /\ tmp' = [tmp EXCEPT ![h] = Null]
            /\ pc' = [pc EXCEPT ![h] = "idle"]
    /\ last' = NoOp
    /\ UNCHANGED <<data, frees, nallocs, completed, past, seen, obs>>

\* The handle goes out of scope: strong.fetch_sub(1).
c_drop(h) ==
    /\ pc[h] = "idle"
    /\ strong' = [strong EXCEPT ![inner[h]] = @ - 1]
    /\ IF strong[inner[h]] = 1
       THEN /\ pc' = [pc EXCEPT ![h] = "drop_free"]
            /\ UNCHANGED inner
       ELSE /\ inner' = [inner EXCEPT ![h] = Null]
            /\ pc' = [pc EXCEPT ![h] = "none"]
    /\ last' = NoOp
    /\ UNCHANGED <<data, frees, nallocs, completed, past, seen, obs, tmp>>

\* Arc::drop_slow by the thread that took the count to zero: the value is
\* dropped and the allocation freed; then the call ends.
c_free(h) ==
    /\ pc[h] \in {"assign_free", "drop_free"}
    /\ data' = [data EXCEPT ![inner[h]] = NoVal]
    /\ frees' = [frees EXCEPT ![inner[h]] = @ + 1]
    /\ IF pc[h] = "assign_free"
       THEN /\ inner' = [inner EXCEPT ![h] = tmp[h]]
            /\ tmp' = [tmp EXCEPT ![h] = Null]
            /\ pc' = [pc EXCEPT ![h] = "idle"]
       ELSE /\ inner' = [inner EXCEPT ![h] = Null]
            /\ pc' = [pc EXCEPT ![h] = "none"]
            /\ UNCHANGED tmp
    /\ last' = NoOp
    /\ UNCHANGED <<strong, nallocs, completed, past, seen, obs>>

\* let a = CowArc::new(v); let b = a.clone(); and each handed to a thread.
InitConc ==
    /\ \E v \in Values : data = [a \in Allocs |-> IF a = 1 THEN v ELSE NoVal]
    /\ inner = [h \in Handles |-> IF h <= 2 THEN 1 ELSE Null]
    /\ strong = [a \in Allocs |-> IF a = 1 THEN 2 ELSE 0]
    /\ frees = [a \in Allocs |-> 0]
    /\ nallocs = 1
    /\ completed = 1
    /\ last = NoOp
    /\ past = [h \in Handles |-> {}]
    /\ seen = [h \in Handles |-> NoVal]
    /\ obs = "conc"
    /\ pc = [h \in Handles |-> IF h <= 2 THEN "idle" ELSE "none"]
    /\ tmp = [h \in Handles |-> Null]

NextConc ==
    \/ \E h \in Handles : c_clone(h)
    \/ \E h \in Handles : c_deref(h)
    \/ \E h \in Handles, val \in Values : c_set_val(h, val)
    \/ \E h \in Handles, f \in Mutators : c_update_val(h, f)
    \/ \E h \in Handles : c_assign_release(h)
    \/ \E h \in Handles : c_drop(h)
    \/ \E h \in Handles : c_free(h)

SpecConc == InitConc /\ [][NextConc]_vars

\* ------------------------------------------------------------ specifications

\* The state before the program has made any handle.
Empty ==
    /\ inner = [h \in Handles |-> Null]
    /\ data = [a \in Allocs |-> NoVal]
    /\ strong = [a \in Allocs |-> 0]
    /\ frees = [a \in Allocs |-> 0]
    /\ nallocs = 0
    /\ completed = 0
    /\ last = NoOp
    /\ past = [h \in Handles |-> {}]
    /\ seen = [h \in Handles |-> NoVal]
    /\ pc = [h \in Handles |-> "none"]
    /\ tmp = [h \in Handles |-> Null]

Init ==
    /\ Empty
    /\ obs = "last"

InitPast ==
    /\ Empty
    /\ obs = "past"

InitSeen ==
    /\ Empty
    /\ obs = "seen"

Next ==
    \/ \E val \in Values : new(val)
    \/ \E h \in Handles, val \in Values : set_val(h, val)
    \/ \E h \in Handles, f \in Mutators : update_val(h, f)
    \/ \E h \in Handles : deref(h)
    \/ \E h \in Handles : clone(h)
    \/ \E h \in Handles : drop(h)

Spec == Init /\ [][Next]_vars
SpecPast == InitPast /\ [][Next]_vars
SpecSeen == InitSeen /\ [][Next]_vars


Mutating == {"set_val", "update_val"}
Allocating == {"new", "set_val", "update_val"}
\* The allocations created before this step, and by it.
Old == 1..nallocs
Fresh == (1..nallocs') \ (1..nallocs)

\* C1: set_val or update_val on a handle (completed or panicked) leaves every
\* other live handle bound to the allocation it was bound to, reading the value
\* it read; and no step of any operation changes the value stored in an
\* allocation that is still allocated after the step.
C1_MutationLeavesOthersAlone ==
    /\ [][last'.op \in Mutating \cup {"update_val_panic"} =>
            \A g \in Handles \ {last'.h} :
                Live(g) => /\ inner'[g] = inner[g]
                           /\ data'[inner'[g]] = data[inner[g]]]_vars
    /\ [][\A a \in Old : frees'[a] = 0 => data'[a] = data[a]]_vars

\* A handle was just given a different value while another handle still holds
\* the allocation the two shared.
C1_Witness ==
    /\ last.op \in Mutating
    /\ \E g \in Handles \ {last.h} : inner[g] = last.old
    /\ data[last.old] # data[inner[last.h]]

\* C2: set_val(b, v2) binds b to an allocation created by the call, which no
\* other handle references and which holds v2, whatever v2 is; every handle a
\* that shared b's allocation keeps it, is no longer identity-equal to b and
\* still reads the value it read.
C2_SetValDiverges ==
    [][last'.op = "set_val" =>
        LET b == last'.h
        IN /\ inner'[b] \in Fresh
           /\ strong'[inner'[b]] = 1
           /\ \A g \in Handles \ {b} : inner'[g] # inner'[b]
           /\ data'[inner'[b]] = last'.val
           /\ \A a \in Handles \ {b} :
                 inner[a] = inner[b] =>
                    /\ inner'[a] = inner[a]
                    /\ inner'[a] # inner'[b]
                    /\ deref_val(a)' = deref_val(a)]_vars

\* a = new(v); b = a.clone(); b.set_val(v) has just run: v2 equals v.
C2_Witness ==
    /\ nallocs = 2
    /\ last.op = "set_val" /\ last.h = 2 /\ last.old = 1
    /\ inner[1] = 1 /\ inner[2] = 2
    /\ last.val = data[1]

\* C3: update_val(b, f) with a closure that returns binds b to an allocation
\* created by the call, holding f applied to a copy of the value b read, for
\* every f (a closure that changes nothing too) and also when b is the only
\* handle of its allocation; the old allocation is not edited; every handle a
\* that shared it keeps it, is not identity-equal to b and reads what it read.
C3_UpdateValDiverges ==
    [][last'.op = "update_val" =>
        LET b == last'.h
        IN /\ inner'[b] \in Fresh
           /\ strong'[inner'[b]] = 1
           /\ \A g \in Handles \ {b} : inner'[g] # inner'[b]
           /\ data'[inner'[b]] = Apply(last'.f, deref_val(b)).val
           /\ data'[inner[b]] \in {data[inner[b]], NoVal}
           /\ \A a \in Handles \ {b} :
                 inner[a] = inner[b] =>
                    /\ inner'[a] = inner[a]
                    /\ inner'[a] # inner'[b]
                    /\ deref_val(a)' = deref_val(a)]_vars

\* a = new(v); b = a.clone(); b.update_val(|_| {}) has just run.
C3_Witness ==
    /\ nallocs = 2
    /\ last.op = "update_val" /\ last.f.kind = "noop" /\ last.h = 2 /\ last.old = 1
    /\ inner[1] = 1 /\ inner[2] = 2
    /\ ValueEq(1, 2)

\* C4: h.clone() makes a handle bound to the allocation h is bound to at that
\* moment (identity-equal to h, reading the same value), which is none of the
\* allocations h was bound to earlier; h stays bound as it was.
C4_CloneSharesCurrent ==
    [][\A h \in Handles :
          clone(h) =>
             LET g == NewSlot
             IN /\ inner'[g] = inner[h]
                /\ inner'[h] = inner[h]
                /\ data'[inner'[g]] = deref_val(h)
                /\ inner'[g] \notin past[h]]_vars

\* A handle that was rebound shares its present allocation with a handle that
\* never was: the second is a clone taken after the divergence, while a third
\* handle still holds the allocation the first diverged from.
C4_Witness ==
    \E h, g, k \in Handles :
        /\ Live(h) /\ Live(g) /\ Live(k)
        /\ past[h] # {} /\ past[g] = {}
        /\ h # g /\ IdentityEq(h, g)
        /\ inner[k] \in past[h]

\* C5: a call of update_val whose closure panics leaves every handle bound as
\* it was and every allocation (value, count, existence) as it was.
C5_PanicLeavesHandle ==
    [][last'.op = "update_val_panic" =>
          UNCHANGED <<inner, data, strong, frees, nallocs, completed>>]_vars

\* A closure has just panicked after it had edited its copy.
C5_Witness ==
    /\ last.op = "update_val_panic"
    /\ last.f.kind = "push_panic"
    /\ Live(last.h)

\* The count of every allocation is the number of handles bound to it; it is
\* freed (once) exactly when that is zero; no handle is bound to freed memory.
RefCountInv ==
    /\ \A a \in Allocs :
          a <= nallocs =>
             /\ strong[a] = Cardinality({h \in Handles : inner[h] = a})
             /\ frees[a] = IF strong[a] = 0 THEN 1 ELSE 0
             /\ (frees[a] = 0) = (data[a] \in Values)
    /\ \A a \in Allocs : a > nallocs => strong[a] = 0 /\ frees[a] = 0
    /\ \A h \in Handles : Live(h) => inner[h] <= nallocs /\ frees[inner[h]] = 0

\* C6: RefCountInv always holds; a step frees an allocation only if it is a
\* set_val, update_val or drop of the last handle bound to it; and set_val,
\* update_val or drop of a handle frees the allocation it was bound to exactly
\* when that handle was its only owner.
C6_RefCountLifetime ==
    /\ []RefCountInv
    /\ [][\A a \in Allocs :
             frees'[a] # frees[a] =>
                /\ last'.op \in Mutating \cup {"drop"}
                /\ last'.old = a
                /\ strong[a] = 1]_vars
    /\ [][last'.op \in Mutating \cup {"drop"} =>
             (frees'[last'.old] = 1) = (strong[last'.old] = 1)]_vars

\* set_val has just freed the allocation its handle owned alone, while another
\* allocation is shared by two handles.
C6_Witness ==
    /\ last.op = "set_val"
    /\ frees[last.old] = 1
    /\ \E a \in Allocs : strong[a] = 2

ConcInv ==
    /\ \A a \in Allocs :
          a <= nallocs =>
             /\ strong[a] = Refs(a)
             /\ frees[a] <= 1
             /\ frees[a] = 1 => Refs(a) = 0
             /\ (Refs(a) = 0 /\ ~\E h \in Handles : inner[h] = a) => frees[a] = 1
             /\ (frees[a] = 0) = (data[a] \in Values)
    /\ \A h \in Handles : pc[h] = "idle" => frees[inner[h]] = 0
    /\ last.op = "deref" => last.val = data[last.old] /\ last.val \in Values

\* C8: under every interleaving of the threads' atomic steps the count of an
\* allocation is the number of Arcs that point to it, the allocation is freed
\* at most once, only with no Arc left, and is freed once the last thread is
\* through; a read returns the value the allocation holds, which no step
\* changes while the allocation exists.
C8_ConcurrentSharing ==
    /\ []ConcInv
    /\ [][\A a \in Old : frees'[a] = 0 => data'[a] = data[a]]_vars

\* The allocation the two threads shared has been freed, one thread has just
\* read its own new allocation and another is in the middle of an assignment.
C8_Witness ==
    /\ frees[1] = 1
    /\ last.op = "deref"
    /\ \E h \in Handles : pc[h] = "assign"

\* C9: deref changes no handle and no allocation and returns the value of the
\* allocation the handle is bound to; what a handle last read is what it reads
\* now, as long as the handle itself was not rebound.
C9_DerefIsPure ==
    /\ [](\A h \in Handles : seen[h] # NoVal => Live(h) /\ seen[h] = deref_val(h))
    /\ [][\A h \in Handles :
             deref(h) =>
                /\ UNCHANGED <<inner, data, strong, frees, nallocs, completed>>
                /\ seen'[h] = deref_val(h)]_vars

\* A handle has read its value, and another handle now reads a different one.
C9_Witness ==
    \E h, g \in Handles :
        /\ seen[h] # NoVal
        /\ Live(g) /\ ~ValueEq(h, g)
        /\ strong[inner[h]] = 1 /\ nallocs >= 2

\* C10: the allocations ever created are as many as the completed calls of new,
\* set_val and update_val; each such call creates exactly one; clone creates
\* none and adds one to the count of the source's allocation; deref, drop and a
\* panicked update_val create none.
C10_AllocationCount ==
    /\ [](Cardinality(Created) = completed /\ Created = 1..nallocs)
    /\ [][/\ last'.op \in Allocating => Cardinality(Created') = Cardinality(Created) + 1
          /\ last'.op = "clone" =>
                /\ Created' = Created
                /\ strong'[last'.old] = strong[last'.old] + 1
          /\ last'.op \in {"deref", "drop", "update_val_panic"} => Created' = Created]_vars

\* Three calls have allocated, and then a clone was made.
C10_Witness ==
    /\ last.op = "clone"
    /\ completed >= 3
    /\ strong[last.old] >= 2

=============================================================================
